---- MODULE Spec2Model ----
(***************************************************************************)
(* Model of rpaas/tasks.py: the asynchronous job handlers of rpaas (host   *)
(* provisioning with rollback, instance removal and scaling, the restore   *)
(* sweep under a redis lock, the health sweep, the certificate jobs).      *)
(*                                                                         *)
(* The external collaborators (hm Host / LoadBalancer, nginx manager, hc,  *)
(* consul manager, MongoDB storage, redis lock) are modelled by the effect *)
(* of the calls tasks.py makes on them; any of these calls may raise.      *)
(***************************************************************************)
EXTENDS Integers, Sequences, FiniteSets, TLC

\* ---------------------------------------------------------------- bounds
Instances == {"app1"}
\* Number of hosts the provisioner can create in one behaviour.
MaxHosts == 2
HostIds == 1..MaxHosts
\* Largest target quantity passed to ScaleInstanceTask.run.
MaxQuantity == 2
\* Last minute the clock reaches.
MaxTime == 4
\* Concurrent invocations of the restore sweep.
Workers == {"w1", "w2"}
\* Keys the API uses the TaskManager on.
\* Last day the calendar reaches, and the most Download jobs the queue holds.
MaxDay == 3
MaxJobs == 3
\* Domains of the certificates (of app1), in cursor order.
DomainSeq == <<"d1", "d2">>
\* Values LE_CERTIFICATE_EXPIRATION_DAYS is configured to (90: the default).
ExpirationDays == {2, 4, 5, 90}
\* The days before expiry at which a certificate is renewed.
RenewMargin == 3
TaskKeys == Instances \cup {"app2", "app3", "app4"}
\* Addresses consul reports / hosts a RestoreTask can name, in cursor order.
AddressSeq == <<"h1", "h2">>
Addresses == {"h1", "h2"}

\* ---------------------------------------------- configuration (in minutes)
\* RPAAS_HEALTHCHECK_TIMEOUT, configured as 60 seconds.
healthcheck_timeout == 1
\* The 60 seconds added to the health-check timeout for the lock's timeout.
LockMargin == 1
\* RESTORE_MACHINE_DELAY, configured as 1 minute.
restore_delay == 1
\* RESTORE_MACHINE_FAILURE_DELAY, configured as 1 minute.
retry_failure_delay == 1

VARIABLES
    \* --- Fleet Provisioner (hm) ---
    hosts,      \* ids of the hosts that exist (created and not destroyed)
    nextHost,   \* id the next Host.create returns
    lbs,        \* load balancers: name -> list of member host ids
    \* --- Health Registry (hc) and consul ---
    hcs,        \* health-check services: name -> set of registered addresses
    \* --- Task Registry (storage tasks collection), instance keys ---
    pending,    \* names that have a PendingTask record
    \* --- job runner ---
    \* --- configuration ---
    rollback_on_error,  \* RPAAS_ROLLBACK_ON_ERROR is one of "True", "true", "1"
    \* --- job runner ---
    scaleHist,  \* the last ScaleInstanceTask runs (at most two) with no other handler between
    calls,      \* calls made by the handler that ran last
    last,       \* the last step: which handler ran, its arguments, its outcome
    \* --- clock ---
    now,        \* datetime.utcnow(), in minutes
    \* --- Task Registry, restore_<address> keys ---
    rtasks,     \* the RestoreTask records
    \* --- hosts collection of the storage ---
    known,      \* addresses storage.find_host_id finds
    \* --- health sweep ---
    seen,       \* when the last health sweep ran and what consul reported to it
    \* --- restore sweep, one invocation per worker ---
    pc,         \* where each worker's RestoreMachineTask.run is
    loc,        \* its locals: created_in, the cursor's remaining tasks, task, start_time
    lock,       \* the redis key of the restore lock: owner and expiry
    out,        \* how each worker's last invocation ended
    \* --- certificates (time in days) ---
    day,        \* datetime.utcnow(), in days
    expires_in, \* LE_CERTIFICATE_EXPIRATION_DAYS
    certs,      \* the Certificate Records: name, domain, created
    jobs,       \* the Download jobs enqueued and not finished
    renewLog    \* the last renewal sweep: when, over which records, what it enqueued

fleetVars == <<hosts, nextHost, lbs, hcs, pending, rollback_on_error, scaleHist, calls, last>>

sweepVars == <<now, rtasks, known, seen, pc, loc, lock, out>>

certVars == <<day, expires_in, certs, jobs, renewLog>>

vars == <<fleetVars, sweepVars, certVars>>

\* ----------------------------------------------------------- call records
Call(op, name, host) == [op |-> op, name |-> name, host |-> host]

\* The collaborators' state a handler works on, with the calls it has made.
World == [hosts |-> hosts, nextHost |-> nextHost, lbs |-> lbs, hcs |-> hcs,
          pending |-> pending, calls |-> calls]

SetWorld(w) ==
    /\ hosts' = w.hosts
    /\ nextHost' = w.nextHost
    /\ lbs' = w.lbs
    /\ hcs' = w.hcs
    /\ pending' = w.pending

Logged(w, c) == [w EXCEPT !.calls = Append(@, c)]

Without(seq, h) == SelectSeq(seq, LAMBDA x : x # h)

\* A function with one key removed / one key set.
DropKey(f, k) == [x \in DOMAIN f \ {k} |-> f[x]]
PutKey(f, k, v) == [x \in DOMAIN f \cup {k} |-> IF x = k THEN v ELSE f[x]]

\* The state threaded through a handler's statements: the world, the error
\* raised so far ("ok": none) and the handler's in-memory lb.hosts list.
Run(w, lbh) == [w |-> w, err |-> "ok", lbh |-> lbh]
Raise(r, w, e) == [r EXCEPT !.w = w, !.err = e]

\* ------------------------------------------------- collaborator calls
\* Each takes the run so far and the outcome of the call (fails: it raises)
\* and gives the run after it; a call after a raise is not made.
host_destroy(r, host, fails) ==
    IF r.err # "ok" THEN r
    ELSE LET w1 == Logged(r.w, Call("host.destroy", "", host))
         IN  IF fails THEN Raise(r, w1, "ProvisionFailure")
             ELSE [r EXCEPT !.w = [w1 EXCEPT !.hosts = @ \ {host}]]

lb_remove_host(r, name, host, fails) ==
    IF r.err # "ok" THEN r
    ELSE LET w1 == Logged(r.w, Call("lb.remove_host", name, host))
         IN  IF fails THEN Raise(r, w1, "ProvisionFailure")
             ELSE [r EXCEPT
                     !.w = [w1 EXCEPT !.lbs = IF name \in DOMAIN w1.lbs
                                               THEN [@ EXCEPT ![name] = Without(@, host)]
                                               ELSE @],
                     !.lbh = Without(@, host)]

lb_add_host(r, name, host, fails) ==
    IF r.err # "ok" THEN r
    ELSE LET w1 == Logged(r.w, Call("lb.add_host", name, host))
         IN  IF fails THEN Raise(r, w1, "ProvisionFailure")
             ELSE [r EXCEPT
                     !.w = [w1 EXCEPT !.lbs = IF name \in DOMAIN w1.lbs
                                               THEN [@ EXCEPT ![name] = Append(@, host)]
                                               ELSE @],
                     !.lbh = Append(@, host)]

lb_destroy(r, name, fails) ==
    IF r.err # "ok" THEN r
    ELSE LET w1 == Logged(r.w, Call("lb.destroy", name, 0))
         IN  IF fails THEN Raise(r, w1, "ProvisionFailure")
             ELSE [r EXCEPT !.w = [w1 EXCEPT !.lbs = DropKey(@, name)]]

consul_list_node(r, fails) ==
    IF r.err # "ok" THEN r
    ELSE LET w1 == Logged(r.w, Call("consul.list_node", "", 0))
         IN  IF fails THEN Raise(r, w1, "ConsulError") ELSE [r EXCEPT !.w = w1]

consul_remove_node(r, host, fails) ==
    IF r.err # "ok" THEN r
    ELSE LET w1 == Logged(r.w, Call("consul.remove_node", "", host))
         IN  IF fails THEN Raise(r, w1, "ConsulError")
             ELSE [r EXCEPT !.w = w1]

hc_create(r, name, fails) ==
    IF r.err # "ok" THEN r
    ELSE LET w1 == Logged(r.w, Call("hc.create", name, 0))
         IN  IF fails THEN Raise(r, w1, "HealthRegistryError")
             ELSE [r EXCEPT !.w = [w1 EXCEPT !.hcs = IF name \in DOMAIN @ THEN @
                                                      ELSE PutKey(@, name, {})]]

hc_add_url(r, name, host, fails) ==
    IF r.err # "ok" THEN r
    ELSE LET w1 == Logged(r.w, Call("hc.add_url", name, host))
         IN  IF fails THEN Raise(r, w1, "HealthRegistryError")
             ELSE [r EXCEPT !.w = [w1 EXCEPT !.hcs = IF name \in DOMAIN @
                                                      THEN [@ EXCEPT ![name] = @ \cup {host}]
                                                      ELSE @]]

hc_remove_url(r, name, host, fails) ==
    IF r.err # "ok" THEN r
    ELSE LET w1 == Logged(r.w, Call("hc.remove_url", name, host))
         IN  IF fails THEN Raise(r, w1, "HealthRegistryError")
             ELSE [r EXCEPT !.w = [w1 EXCEPT !.hcs = IF name \in DOMAIN @
                                                      THEN [@ EXCEPT ![name] = @ \ {host}]
                                                      ELSE @]]

hc_destroy(r, name, fails) ==
    IF r.err # "ok" THEN r
    ELSE LET w1 == Logged(r.w, Call("hc.destroy", name, 0))
         IN  IF fails THEN Raise(r, w1, "HealthRegistryError")
             ELSE [r EXCEPT !.w = [w1 EXCEPT !.hcs = DropKey(@, name)]]

wait_healthcheck(r, host, fails) ==
    IF r.err # "ok" THEN r
    ELSE LET w1 == Logged(r.w, Call("nginx.wait_healthcheck", "", host))
         IN  IF fails THEN Raise(r, w1, "HealthCheckTimeout") ELSE [r EXCEPT !.w = w1]

\* storage.remove_task(name): deletes the record if there is one.
storage_remove_task(r, name, fails) ==
    IF r.err # "ok" THEN r
    ELSE LET w1 == Logged(r.w, Call("storage.remove_task", name, 0))
         IN  IF fails THEN Raise(r, w1, "StorageError")
             ELSE [r EXCEPT !.w = [w1 EXCEPT !.pending = @ \ {name}]]

\* Host.create: the new host exists (its consul agent registers its node).
\* The provisioner refuses once it has created MaxHosts hosts.
Host_create(r, name, fails) ==
    IF r.err # "ok" THEN r
    ELSE LET w1 == Logged(r.w, Call("Host.create", name, r.w.nextHost))
         IN  IF fails \/ w1.nextHost > MaxHosts THEN Raise(r, w1, "ProvisionFailure")
             ELSE [r EXCEPT !.w = [w1 EXCEPT !.hosts = @ \cup {w1.nextHost},
                                             !.nextHost = @ + 1]]

LoadBalancer_create(r, name, fails) ==
    IF r.err # "ok" THEN r
    ELSE LET w1 == Logged(r.w, Call("LoadBalancer.create", name, 0))
         IN  IF fails THEN Raise(r, w1, "ProvisionFailure")
             ELSE [r EXCEPT !.w = [w1 EXCEPT !.lbs = PutKey(@, name, <<>>)], !.lbh = <<>>]

\* --------------------------------------------------------- _delete_host
\* The calls of _delete_host that are made to raise, in order (a raise of
\* consul.list_node leaves the same state as one of consul.remove_node).
DeleteSteps == {"host.destroy", "lb.remove_host", "consul.remove_node", "hc.remove_url"}

\* _delete_host(host, lb): hasLb says whether an lb was passed; `fail` names
\* the call that raises ("none": no call does). The host's node is in consul's
\* list (its agent registered it when the host booted), so node_name is found.
DeleteHost(r, host, hasLb, name, fail) ==
    LET r1 == host_destroy(r, host, fail = "host.destroy")
        r2 == IF hasLb THEN lb_remove_host(r1, name, host, fail = "lb.remove_host") ELSE r1
        r3 == consul_list_node(r2, fail = "consul.list_node")
        r4 == consul_remove_node(r3, host, fail = "consul.remove_node")
        r5 == IF hasLb THEN hc_remove_url(r4, name, host, fail = "hc.remove_url") ELSE r4
    IN  r5

\* ------------------------------------------------------------ _add_host
\* The calls of _add_host's try block that are made to raise, in order (a
\* raise of hc.create leaves the same state as one of nginx.wait_healthcheck).
AddSteps == {"LoadBalancer.create", "lb.add_host", "nginx.wait_healthcheck",
             "hc.add_url", "storage.remove_task"}

\* Which of the three rollback actions raise: the load balancer's destroy,
\* _delete_host (and at which call), the health-check service's destroy.
Cleanup(lbFails, hostFail, hcFails) == [lb |-> lbFails, host |-> hostFail, hc |-> hcFails]
NoCleanupFailure == Cleanup(FALSE, "none", FALSE)

\* An except clause that logs: the effects so far stay, the error is dropped.
Swallow(r) == [r EXCEPT !.err = "ok"]

Rollback_skips_host(r, name, host, createdLb, rollback, cf) ==
    IF ~rollback THEN r
    ELSE LET r0 == Swallow(r)
             c1 == IF createdLb THEN Swallow(lb_destroy(r0, name, cf.lb)) ELSE r0
             c2 == IF createdLb THEN Swallow(DeleteHost(c1, host, FALSE, name, cf.host)) ELSE c1
             c3 == Swallow(hc_destroy(c2, name, cf.hc))
         IN  [c3 EXCEPT !.err = r.err]

\* The except block of _add_host (lines 112-130) for the error raised in the
\* try block: with rollback enabled, three cleanup actions, each in its own
\* try/except, then the original error is raised again.
Rollback(r, name, host, createdLb, rollback, cf) ==
    IF ~rollback THEN r
    ELSE LET r0 == Swallow(r)
             c1 == IF createdLb THEN Swallow(lb_destroy(r0, name, cf.lb)) ELSE r0
             c2 == Swallow(DeleteHost(c1, host, FALSE, name, cf.host))
             c3 == Swallow(hc_destroy(c2, name, cf.hc))
         IN  [c3 EXCEPT !.err = r.err]

AddHost_clears_first(r, name, hasLb, fail, rollback, cf) ==
    LET host == r.w.nextHost
        h    == Host_create(r, name, fail = "Host.create")
        t1   == IF hasLb THEN h ELSE LoadBalancer_create(h, name, fail = "LoadBalancer.create")
        createdLb == ~hasLb /\ t1.err = "ok"
        t2   == lb_add_host(t1, name, host, fail = "lb.add_host")
        t3   == storage_remove_task(t2, name, fail = "storage.remove_task")
        t4   == wait_healthcheck(t3, host, fail = "nginx.wait_healthcheck")
        t5   == hc_create(t4, name, fail = "hc.create")
        t6   == hc_add_url(t5, name, host, fail = "hc.add_url")
    IN  IF h.err # "ok" THEN h
        ELSE IF t6.err = "ok" THEN t6
        ELSE Rollback(t6, name, host, createdLb, rollback, cf)

\* _add_host(name, lb): hasLb says whether an lb was passed (r.lbh is then its
\* host list). `fail` names the call of the try block that raises, or
\* "Host.create", or "none".
AddHost(r, name, hasLb, fail, rollback, cf) ==
    LET host == r.w.nextHost
        h    == Host_create(r, name, fail = "Host.create")
        t1   == IF hasLb THEN h ELSE LoadBalancer_create(h, name, fail = "LoadBalancer.create")
        createdLb == ~hasLb /\ t1.err = "ok"
        t2   == lb_add_host(t1, name, host, fail = "lb.add_host")
        t3   == wait_healthcheck(t2, host, fail = "nginx.wait_healthcheck")
        t4   == hc_create(t3, name, fail = "hc.create")
        t5   == hc_add_url(t4, name, host, fail = "hc.add_url")
        t6   == storage_remove_task(t5, name, fail = "storage.remove_task")
    IN  IF h.err # "ok" THEN h
        ELSE IF t6.err = "ok" THEN t6
        ELSE Rollback(t6, name, host, createdLb, rollback, cf)


\* ---------------------------------------------------------------- steps
\* What `last` records of a step: the handler, its arguments (name, arg), the
\* error it raised, the host created by its _add_host call that raised (0: none),
\* the call that was made to raise, the cleanup actions that were made to
\* raise, and whether name had a PendingTask when the handler started.
Step(op, name, arg, err, host, fail, cf, had) ==
    [op |-> op, name |-> name, arg |-> arg, err |-> err, host |-> host,
     fail |-> fail, cf |-> cf, had |-> had]

NoStep == Step("init", "", 0, "ok", 0, "none", NoCleanupFailure, FALSE)

Plain(op, name, err) ==
    Step(op, name, 0, err, 0, "none", NoCleanupFailure, name \in pending)

\* The host created by the _add_host call of run r that raised at `fail`.
FailedHost(r, fail) == IF fail \in AddSteps /\ r.err # "ok" THEN r.w.nextHost - 1 ELSE 0

\* The failures that can be injected into one _add_host call.
CleanupFailures ==
    {NoCleanupFailure, Cleanup(TRUE, "none", FALSE), Cleanup(FALSE, "host.destroy", FALSE),
     Cleanup(FALSE, "none", TRUE)}

\* Cleanup runs (and can fail) only when rollback is on and the try block
\* raised; the load balancer is destroyed only when this call created it.
CleanupChoices(rollback, fail, hasLb) ==
    IF rollback /\ fail \in AddSteps
    THEN {cf \in CleanupFailures : cf.lb => (~hasLb /\ fail # "LoadBalancer.create")}
    ELSE {NoCleanupFailure}

\* The calls of one _add_host that can be made to raise: once the provisioner
\* is out of capacity Host.create raises by itself and nothing else is reached.
AddFailures(w) == IF w.nextHost > MaxHosts THEN {"none"}
                  ELSE {"none", "Host.create"} \cup AddSteps

\* ------------------------------------------------------------ TaskManager
\* `tasks` is the set of ids that have a record in the tasks collection.
\* storage.find_task(name).count()
storage_count(tasks, name) == IF name \in tasks THEN 1 ELSE 0

ensure_ready_off_by_one(tasks, name) ==
    [tasks |-> tasks,
     err |-> IF storage_count(tasks, name) > 1 THEN "NotReadyError" ELSE "ok"]

\* TaskManager.ensure_ready(name): NotReadyError when count() >= 1; reads only.
ensure_ready(tasks, name) ==
    [tasks |-> tasks,
     err |-> IF storage_count(tasks, name) >= 1 THEN "NotReadyError" ELSE "ok"]

\* TaskManager.create(name): storage.store_task(name), unconditionally.
create(tasks, name) == [tasks |-> tasks \cup {name}, err |-> "ok"]

remove_silent(tasks, name) == [tasks |-> tasks \ {name}, err |-> "ok"]

\* TaskManager.remove(name): the record is removed when ensure_ready raised,
\* TaskNotFoundError otherwise.
remove(tasks, name) ==
    IF ensure_ready(tasks, name).err = "NotReadyError"
    THEN [tasks |-> tasks \ {name}, err |-> "ok"]
    ELSE [tasks |-> tasks, err |-> "TaskNotFoundError"]

\* The API (or any caller) uses the TaskManager on an instance's key.
TM_ensure_ready(key) ==
    /\ pending' = ensure_ready(pending, key).tasks
    /\ last' = Plain("ensure_ready", key, ensure_ready(pending, key).err)
    /\ calls' = <<>>
    /\ UNCHANGED <<hosts, nextHost, lbs, hcs, rollback_on_error, scaleHist, sweepVars, certVars>>

TM_create(key) ==
    /\ pending' = create(pending, key).tasks
    /\ last' = Plain("create", key, create(pending, key).err)
    /\ calls' = <<>>
    /\ UNCHANGED <<hosts, nextHost, lbs, hcs, rollback_on_error, scaleHist, sweepVars, certVars>>

TM_remove(key) ==
    /\ pending' = remove(pending, key).tasks
    /\ last' = Plain("remove", key, remove(pending, key).err)
    /\ calls' = <<>>
    /\ UNCHANGED <<hosts, nextHost, lbs, hcs, rollback_on_error, scaleHist, sweepVars, certVars>>

\* -------------------------------------------------------- NewInstanceTask
NewInstanceTask_run(name, fail, cf) ==
    /\ name \notin DOMAIN lbs
    /\ LET r == AddHost(Run([World EXCEPT !.calls = <<>>], <<>>), name, FALSE,
                        fail, rollback_on_error, cf)
       IN  /\ SetWorld(r.w)
           /\ calls' = r.w.calls
           /\ last' = Step("new", name, 0, r.err, FailedHost(r, fail), fail, cf,
                           name \in pending)
    /\ scaleHist' = <<>>
    /\ UNCHANGED <<rollback_on_error, sweepVars, certVars>>

\* ----------------------------------------------------- RemoveInstanceTask
\* LoadBalancer.find(name): a read; the handler gets None when there is none.
LoadBalancer_find(r, name, fails) ==
    IF r.err # "ok" THEN r
    ELSE LET w1 == Logged(r.w, Call("LoadBalancer.find", name, 0))
         IN  IF fails THEN Raise(r, w1, "ProvisionFailure")
             ELSE IF name \notin DOMAIN w1.lbs THEN Raise(r, w1, "InstanceNotFoundError")
             ELSE [r EXCEPT !.w = w1, !.lbh = w1.lbs[name]]

\* for host in lb.hosts: self._delete_host(host, lb), over the list as it was
\* when the loop started; the k-th call raises at `fail`.
RECURSIVE DeleteAll(_, _, _, _, _)
DeleteAll(r, list, name, k, fail) ==
    IF list = <<>> \/ r.err # "ok" THEN r
    ELSE DeleteAll(DeleteHost(r, Head(list), TRUE, name, IF k = 1 THEN fail ELSE "none"),
                   Tail(list), name, k - 1, fail)

RemoveFailures(w, name) ==
    {<<0, f>> : f \in {"none", "LoadBalancer.find", "lb.destroy", "hc.destroy"}}
    \cup (IF name \in DOMAIN w.lbs
          THEN {<<k, f>> : k \in 1..Len(w.lbs[name]), f \in DeleteSteps}
          ELSE {})

RemoveInstance_first_host_only(r, name, k, fail) ==
    LET f  == LoadBalancer_find(r, name, fail = "LoadBalancer.find")
        d  == DeleteAll(f, IF f.lbh = <<>> THEN <<>> ELSE <<Head(f.lbh)>>, name, k, fail)
        l  == lb_destroy(d, name, fail = "lb.destroy")
        h  == hc_destroy(l, name, fail = "hc.destroy")
    IN  h

\* RemoveInstanceTask.run
RemoveInstance(r, name, k, fail) ==
    LET f  == LoadBalancer_find(r, name, fail = "LoadBalancer.find")
        d  == DeleteAll(f, f.lbh, name, k, fail)
        l  == lb_destroy(d, name, fail = "lb.destroy")
        h  == hc_destroy(l, name, fail = "hc.destroy")
    IN  h

RemoveInstanceTask_run(name, k, fail) ==
    /\ LET r == RemoveInstance(Run([World EXCEPT !.calls = <<>>], <<>>), name, k, fail)
       IN  /\ SetWorld(r.w)
           /\ calls' = r.w.calls
           /\ last' = Step("remove_instance", name, k, r.err, 0, fail, NoCleanupFailure,
                           name \in pending)
    /\ scaleHist' = <<>>
    /\ UNCHANGED <<rollback_on_error, sweepVars, certVars>>

\* ------------------------------------------------------ ScaleInstanceTask
Abs(n) == IF n < 0 THEN -n ELSE n

ScaleBody_keeps_member(r, name, diff, i, fail, rollback, cf) ==
    IF diff > 0 THEN AddHost(r, name, TRUE, fail, rollback, cf)
    ELSE IF i + 1 > Len(r.lbh) THEN Raise(r, r.w, "IndexError")
    ELSE DeleteHost(r, r.lbh[i + 1], FALSE, name, fail)

\* One iteration of the loop of lines 177-181: i counts from 0, r.lbh is
\* lb.hosts as the calls made so far have left it.
ScaleBody(r, name, diff, i, fail, rollback, cf) ==
    IF diff > 0 THEN AddHost(r, name, TRUE, fail, rollback, cf)
    ELSE IF i + 1 > Len(r.lbh) THEN Raise(r, r.w, "IndexError")
    ELSE DeleteHost(r, r.lbh[i + 1], TRUE, name, fail)

\* for i in xrange(abs(diff)): the k-th iteration (from 1) raises at `fail`.
RECURSIVE ScaleLoop(_, _, _, _, _, _, _, _)
ScaleLoop(r, name, diff, i, k, fail, rollback, cf) ==
    IF r.err # "ok" \/ i >= Abs(diff) THEN r
    ELSE ScaleLoop(ScaleBody(r, name, diff, i, IF i + 1 = k THEN fail ELSE "none",
                             rollback, cf),
                   name, diff, i + 1, k, fail, rollback, cf)

ScaleInstance_no_finally(r, name, quantity, k, fail, rollback, cf) ==
    LET f    == LoadBalancer_find(r, name, fail = "LoadBalancer.find")
        diff == quantity - Len(f.lbh)
        l    == IF f.err # "ok" THEN f ELSE ScaleLoop(f, name, diff, 0, k, fail, rollback, cf)
    IN  storage_remove_task(l, name, fail = "finally")

ScaleInstance_returns_early(r, name, quantity, k, fail, rollback, cf) ==
    LET f    == LoadBalancer_find(r, name, fail = "LoadBalancer.find")
        diff == quantity - Len(f.lbh)
        l    == IF f.err # "ok" THEN f ELSE ScaleLoop(f, name, diff, 0, k, fail, rollback, cf)
        t    == storage_remove_task(Swallow(l), name, fail = "finally")
    IN  IF f.err = "ok" /\ diff = 0 THEN f
        ELSE [t EXCEPT !.err = IF t.err # "ok" THEN t.err ELSE l.err]

\* ScaleInstanceTask.run: the try block, then the finally clause.
ScaleInstance(r, name, quantity, k, fail, rollback, cf) ==
    LET f    == LoadBalancer_find(r, name, fail = "LoadBalancer.find")
        diff == quantity - Len(f.lbh)
        l    == IF f.err # "ok" THEN f ELSE ScaleLoop(f, name, diff, 0, k, fail, rollback, cf)
        t    == storage_remove_task(Swallow(l), name, fail = "finally")
    IN  [t EXCEPT !.err = IF t.err # "ok" THEN t.err ELSE l.err]

\* The failures that can be injected into a run: <<k, fail>>.
ScaleFailures(w, name, quantity) ==
    LET n == IF name \in DOMAIN w.lbs THEN Len(w.lbs[name]) ELSE 0
        left == MaxHosts + 1 - w.nextHost
    IN  {<<0, f>> : f \in {"none", "LoadBalancer.find", "finally"}}
        \cup (IF name \notin DOMAIN w.lbs THEN {}
              ELSE IF quantity > n
              THEN {<<k, f>> : k \in 1..(IF quantity - n < left THEN quantity - n ELSE left),
                               f \in AddFailures(w) \ {"none", "LoadBalancer.create"}}
              ELSE {<<k, f>> : k \in 1..(n - quantity), f \in DeleteSteps})

ScaleInstanceTask_run(name, quantity, k, fail, cf) ==
    /\ LET r == ScaleInstance(Run([World EXCEPT !.calls = <<>>], <<>>), name, quantity,
                              k, fail, rollback_on_error, cf)
           rec == [name |-> name, quantity |-> quantity,
                   before |-> lbs[name], after |-> r.w.lbs[name]]
       IN  /\ SetWorld(r.w)
           /\ calls' = r.w.calls
           /\ last' = Step("scale", name, quantity, r.err, FailedHost(r, fail), fail, cf,
                           name \in pending)
           /\ scaleHist' = IF r.err # "ok" THEN <<>>
                           ELSE IF scaleHist # <<>> /\ scaleHist[Len(scaleHist)].name = name
                           THEN <<scaleHist[Len(scaleHist)], rec>>
                           ELSE <<rec>>
    /\ UNCHANGED <<rollback_on_error, sweepVars, certVars>>

\* ------------------------------------------------------- certificate jobs
\* DownloadCertTask.run: ssl.generate_crt, then the task is removed (finally).
DownloadCert(r, name, fail) ==
    LET g == IF fail = "ssl.generate_crt"
             THEN Raise(r, Logged(r.w, Call("ssl.generate_crt", name, 0)),
                        "CertificateAuthorityError")
             ELSE [r EXCEPT !.w = Logged(r.w, Call("ssl.generate_crt", name, 0))]
        f == storage_remove_task(Swallow(g), name, fail = "finally")
    IN  [f EXCEPT !.err = IF f.err # "ok" THEN f.err ELSE g.err]

DownloadCertTask_run(name, fail) ==
    /\ LET r == DownloadCert(Run([World EXCEPT !.calls = <<>>], <<>>), name, fail)
       IN  /\ SetWorld(r.w)
           /\ calls' = r.w.calls
           /\ last' = Step("download", name, 0, r.err, 0, fail, NoCleanupFailure,
                           name \in pending)
    /\ scaleHist' = <<>>
    /\ UNCHANGED <<rollback_on_error, sweepVars, certVars>>

\* RevokeCertTask.run: find the instance, revoke through the plugin, delete
\* the certificate record; the error is logged and raised again; the task is
\* removed (finally).
RevokeCert(r, name, fail) ==
    LET f == LoadBalancer_find(r, name, fail = "LoadBalancer.find")
        v == IF f.err # "ok" THEN f
             ELSE IF fail = "plugin.revoke"
             THEN Raise(f, Logged(f.w, Call("plugin.revoke", name, 0)),
                        "CertificateAuthorityError")
             ELSE [f EXCEPT !.w = Logged(f.w, Call("plugin.revoke", name, 0))]
        d == IF v.err # "ok" THEN v
             ELSE IF fail = "storage.remove_le_certificate"
             THEN Raise(v, Logged(v.w, Call("storage.remove_le_certificate", name, 0)),
                        "StorageError")
             ELSE [v EXCEPT !.w = Logged(v.w, Call("storage.remove_le_certificate", name, 0))]
        t == storage_remove_task(Swallow(d), name, fail = "finally")
    IN  [t EXCEPT !.err = IF t.err # "ok" THEN t.err ELSE d.err]

RevokeCertTask_run(name, fail) ==
    /\ LET r == RevokeCert(Run([World EXCEPT !.calls = <<>>], <<>>), name, fail)
       IN  /\ SetWorld(r.w)
           /\ calls' = r.w.calls
           /\ last' = Step("revoke", name, 0, r.err, 0, fail, NoCleanupFailure,
                           name \in pending)
    /\ scaleHist' = <<>>
    /\ UNCHANGED <<rollback_on_error, sweepVars, certVars>>

\* ------------------------------------------------------------ the clock
None == "None"
\* A last_attempt that is not set; one that is set is <<t>>.
Never == <<>>
\* No task id.
NoId == <<>>

NoLock == [owner |-> None, expiry |-> 0]

\* A minute passes, the workers idle or blocked in Host.restore() and the
\* health-check wait (the statements between take no time); redis drops the
\* lock's key when its timeout has elapsed.
Tick ==
    /\ now < MaxTime
    /\ \A w \in Workers : pc[w] \in {"idle", "restore"}
    /\ now' = now + 1
    /\ lock' = IF lock.owner # None /\ lock.expiry <= now + 1 THEN NoLock ELSE lock
    /\ UNCHANGED <<fleetVars, certVars, rtasks, known, seen, pc, loc, out>>

\* ------------------------------------------------------- CheckMachineTask
\* "restore_{}".format(address)
task_name(address) == <<"restore_", address>>

Ids(ts) == {t.id : t \in ts}

\* storage.store_task(doc)
store_task(ts, doc) == ts \cup {doc}

RestoreTask(address, instance, t) ==
    [id |-> task_name(address), host |-> address, instance |-> instance,
     created |-> t, last_attempt |-> Never]

\* The tag of the node that does not contain RPAAS_SERVICE_NAME.
service_instance(address) == "app1"

Reports == [Addresses -> {"absent", "passing", "failing"}]
NoReport == [at |-> 0, nodes |-> [a \in Addresses |-> "absent"]]

\* consul_manager.service_healthcheck(): the nodes of the service.
service_healthcheck(report) == SelectSeq(AddressSeq, LAMBDA a : report[a] # "absent")

CheckNode_restamps(ts, kn, address, status, t) ==
    IF address \notin kn THEN ts
    ELSE IF status = "failing"
         THEN store_task({x \in ts : x.id # task_name(address)},
                         RestoreTask(address, service_instance(address), t))
         ELSE {x \in ts : x.id # task_name(address)}

\* The body of the loop over the nodes: an unknown machine is skipped; a
\* failing node gets a task unless ensure_ready raises; a passing node's task
\* is removed; whatever the TaskManager raises is swallowed.
CheckNode(ts, kn, address, status, t) ==
    IF address \notin kn THEN ts
    ELSE IF status = "failing"
         THEN IF ensure_ready(Ids(ts), task_name(address)).err = "ok"
              THEN store_task(ts, RestoreTask(address, service_instance(address), t))
              ELSE ts
         ELSE IF remove(Ids(ts), task_name(address)).err = "ok"
              THEN {x \in ts : x.id # task_name(address)}
              ELSE ts

RECURSIVE CheckNodes_stop_at_unknown(_, _, _, _, _)
CheckNodes_stop_at_unknown(ts, kn, nodes, report, t) ==
    IF nodes = <<>> \/ Head(nodes) \notin kn THEN ts
    ELSE CheckNodes_stop_at_unknown(
             CheckNode(ts, kn, Head(nodes), report[Head(nodes)], t),
             kn, Tail(nodes), report, t)

\* for node in self.consul_manager.service_healthcheck()
RECURSIVE CheckNodes(_, _, _, _, _)
CheckNodes(ts, kn, nodes, report, t) ==
    IF nodes = <<>> THEN ts
    ELSE CheckNodes(CheckNode(ts, kn, Head(nodes), report[Head(nodes)], t),
                    kn, Tail(nodes), report, t)

CheckMachineTask_run(report) ==
    /\ rtasks' = CheckNodes(rtasks, known, service_healthcheck(report), report, now)
    /\ seen' = [at |-> now, nodes |-> report]
    /\ UNCHANGED <<fleetVars, certVars, now, known, pc, loc, lock, out>>

\* ----------------------------------------------------- RestoreMachineTask
\* redis_client.lock(name, timeout).acquire(blocking=False)
redis_lock(lk, w, t, timeout) ==
    IF lk.owner = None
    THEN [lock |-> [owner |-> w, expiry |-> t + timeout], acquired |-> TRUE]
    ELSE [lock |-> lk, acquired |-> FALSE]

\* redis_lock.release(): LockError when the key is no longer this lock's.
redis_unlock(lk, w) ==
    IF lk.owner = w THEN [lock |-> NoLock, err |-> "ok"]
    ELSE [lock |-> lk, err |-> "LockError"]

\* redis_lock.extend(extra_time): adds to the remaining time of the key;
\* LockError when the key is no longer this lock's.
redis_extend_lock(lk, w, extra_time) ==
    IF lk.owner = w THEN [lock |-> [lk EXCEPT !.expiry = @ + extra_time], err |-> "ok"]
    ELSE [lock |-> lk, err |-> "LockError"]

\* storage.find_task(restore_query), in cursor order.
RECURSIVE find_task(_, _, _)
find_task(ts, created_in, addrs) ==
    IF addrs = <<>> THEN <<>>
    ELSE LET m == {t \in ts : t.host = Head(addrs) /\ t.created <= created_in}
         IN  (IF m = {} THEN <<>> ELSE <<CHOOSE t \in m : TRUE>>)
             \o find_task(ts, created_in, Tail(addrs))

\* storage.update_task(id, {"last_attempt": t}): sets the field of the stored record.
update_task(ts, id, t) ==
    {IF x.id = id THEN [x EXCEPT !.last_attempt = <<t>>] ELSE x : x \in ts}

\* storage.remove_task({"_id": id})
remove_task(ts, id) == {x \in ts : x.id # id}

\* _failure_instances: instances with a task whose last_attempt + delay >= now.
failure_instances(ts, delay, t) ==
    {x.instance : x \in {y \in ts : y.last_attempt # Never /\ y.last_attempt[1] + delay >= t}}

NoTask == [id |-> NoId, host |-> None, instance |-> None, created |-> 0,
           last_attempt |-> Never]

Idle == [created_in |-> 0, todo |-> <<>>, task |-> NoTask, start_time |-> 0]

Outcome(status, orig, raised, id) ==
    [status |-> status, orig |-> orig, raised |-> raised, task |-> id]

NoOutcome == Outcome("none", "ok", "ok", NoId)

\* The except clause of the loop: stamp last_attempt, release the lock, raise e.
\* update_fails: storage.update_task raises.
run_except(ts, lk, w, id, e, t, update_fails) ==
    IF update_fails
    THEN [tasks |-> ts, lock |-> lk, raised |-> "storage.update_task"]
    ELSE LET u == redis_unlock(lk, w)
         IN  [tasks |-> update_task(ts, id, t), lock |-> u.lock,
              raised |-> IF u.err = "ok" THEN e ELSE u.err]

Fail(w, x, id, e) ==
    /\ rtasks' = x.tasks
    /\ lock' = x.lock
    /\ pc' = [pc EXCEPT ![w] = "idle"]
    /\ loc' = [loc EXCEPT ![w] = Idle]
    /\ out' = [out EXCEPT ![w] = Outcome("failed", e, x.raised, id)]

\* run up to the loop: take the lock or return; list the tasks to restore.
\* find_fails: storage.find_task raises (outside the try).
RestoreMachineTask_run(w, find_fails) ==
    /\ pc[w] = "idle"
    /\ LET l == redis_lock(lock, w, now, healthcheck_timeout + LockMargin)
           created_in == now - restore_delay
       IN  /\ lock' = l.lock
           /\ IF ~l.acquired
              THEN /\ ~find_fails
                   /\ out' = [out EXCEPT ![w] = Outcome("LockUnavailable", "ok", "ok", NoId)]
                   /\ UNCHANGED <<pc, loc>>
              ELSE IF find_fails
              THEN /\ out' = [out EXCEPT ![w] =
                                 Outcome("failed", "storage.find_task",
                                         "storage.find_task", NoId)]
                   /\ UNCHANGED <<pc, loc>>
              ELSE /\ pc' = [pc EXCEPT ![w] = "loop"]
                   /\ loc' = [loc EXCEPT ![w] =
                                 [Idle EXCEPT !.created_in = created_in,
                                              !.todo = find_task(rtasks, created_in,
                                                                 AddressSeq)]]
                   /\ out' = [out EXCEPT ![w] = NoOutcome]
    /\ UNCHANGED <<fleetVars, certVars, now, rtasks, known, seen>>

\* The next task of the cursor, up to the call of Host.restore(); a task of
\* an instance in the failure window is passed over; after the last task the
\* lock is released.
restore_machine_begin(w, update_fails) ==
    /\ pc[w] = "loop"
    /\ IF loc[w].todo = <<>>
       THEN LET u == redis_unlock(lock, w)
            IN  /\ ~update_fails
                /\ lock' = u.lock
                /\ pc' = [pc EXCEPT ![w] = "idle"]
                /\ loc' = [loc EXCEPT ![w] = Idle]
                /\ out' = [out EXCEPT ![w] =
                              IF u.err = "ok" THEN Outcome("ok", "ok", "ok", NoId)
                              ELSE Outcome("failed", u.err, u.err, NoId)]
                /\ UNCHANGED rtasks
       ELSE LET task == Head(loc[w].todo)
            IN  IF task.instance \in failure_instances(rtasks, retry_failure_delay, now)
                THEN LET ext == redis_extend_lock(lock, w, 0)
                     IN  IF ext.err = "ok"
                         THEN /\ ~update_fails
                              /\ lock' = ext.lock
                              /\ loc' = [loc EXCEPT ![w].todo = Tail(@)]
                              /\ UNCHANGED <<rtasks, pc, out>>
                         ELSE Fail(w, run_except(rtasks, lock, w, task.id, ext.err,
                                                 now, update_fails), task.id, ext.err)
                ELSE /\ ~update_fails
                     /\ pc' = [pc EXCEPT ![w] = "restore"]
                     /\ loc' = [loc EXCEPT ![w].todo = Tail(@), ![w].task = task,
                                           ![w].start_time = now]
                     /\ UNCHANGED <<rtasks, lock, out>>
    /\ UNCHANGED <<fleetVars, certVars, now, known, seen>>

RestoreSteps == {"Host.restore", "nginx.wait_healthcheck", "storage.remove_task"}

\* Host.restore() and the health-check wait return or raise; the task is
\* removed, the lock extended by the elapsed time.
restore_machine_end(w, fail, update_fails) ==
    /\ pc[w] = "restore"
    /\ LET task == loc[w].task
           elapsed_time == now - loc[w].start_time
           removed == remove_task(rtasks, task.id)
           ext == redis_extend_lock(lock, w, elapsed_time)
       IN  IF fail \in RestoreSteps
           THEN Fail(w, run_except(rtasks, lock, w, task.id, fail, now, update_fails),
                     task.id, fail)
           ELSE IF ext.err # "ok"
           THEN Fail(w, run_except(removed, lock, w, task.id, ext.err, now,
                                   update_fails), task.id, ext.err)
           ELSE /\ ~update_fails
                /\ rtasks' = removed
                /\ lock' = ext.lock
                /\ pc' = [pc EXCEPT ![w] = "loop"]
                /\ loc' = [loc EXCEPT ![w].task = NoTask, ![w].start_time = 0]
                /\ UNCHANGED out
    /\ UNCHANGED <<fleetVars, certVars, now, known, seen>>


\* --------------------------------------------------------- RenewCertsTask
Cert(name, domain, created) == [name |-> name, domain |-> domain, created |-> created]

\* What renew() passes to DownloadCertTask().delay.
Job(cert) == [name |-> cert.name, domain |-> cert.domain]

renew_limit_at_expiry(today, expires) == today - expires

\* limit = utcnow() - timedelta(days=expires_in - 3)
renew_limit(today, expires) == today - (expires - RenewMargin)

\* storage.find_le_certificates({"created": {"$lte": limit}}), in cursor order.
RECURSIVE find_le_certificates(_, _, _)
find_le_certificates(cs, limit, domains) ==
    IF domains = <<>> THEN <<>>
    ELSE LET m == {c \in cs : c.domain = Head(domains) /\ c.created <= limit}
         IN  (IF m = {} THEN <<>> ELSE <<CHOOSE c \in m : TRUE>>)
             \o find_le_certificates(cs, limit, Tail(domains))

\* The loop over the cursor: the k-th iteration (from 1; 0: none) raises when
\* it reads the instance's metadata or plan; the others enqueue a Download job.
RECURSIVE RenewLoop(_, _, _)
RenewLoop(r, list, k) ==
    IF list = <<>> \/ r.err # "ok" THEN r
    ELSE IF k = 1 THEN [r EXCEPT !.err = "StorageError"]
    ELSE RenewLoop([r EXCEPT !.jobs = Append(@, Job(Head(list)))], Tail(list), k - 1)

RenewCerts(cs, today, expires, k) ==
    RenewLoop([jobs |-> <<>>, err |-> "ok"],
              find_le_certificates(cs, renew_limit(today, expires), DomainSeq), k)

NoRenewal == [at |-> 0, err |-> "none", certs |-> {}, enqueued |-> <<>>]

RenewCertsTask_run(k) ==
    LET r == RenewCerts(certs, day, expires_in, k)
    IN  /\ Len(jobs) + Len(r.jobs) <= MaxJobs
        /\ k > 0 => r.err # "ok"
        /\ jobs' = jobs \o r.jobs
        /\ renewLog' = [at |-> day, err |-> r.err, certs |-> certs, enqueued |-> r.jobs]
        /\ UNCHANGED <<fleetVars, sweepVars, day, expires_in, certs>>

\* A worker takes the i-th job of the queue and runs DownloadCertTask.run; a
\* certificate that was generated replaces the record (same name and domain,
\* created now).
DownloadCertJob(i, fail) ==
    /\ i \in 1..Len(jobs)
    /\ LET job == jobs[i]
           r == DownloadCert(Run([World EXCEPT !.calls = <<>>], <<>>), job.name, fail)
       IN  /\ SetWorld(r.w)
           /\ calls' = r.w.calls
           /\ last' = Step("download", job.name, 0, r.err, 0, fail, NoCleanupFailure,
                           job.name \in pending)
           /\ jobs' = SubSeq(jobs, 1, i - 1) \o SubSeq(jobs, i + 1, Len(jobs))
           /\ certs' = IF fail = "ssl.generate_crt" THEN certs
                       ELSE {IF Job(c) = job THEN Cert(c.name, c.domain, day) ELSE c
                             : c \in certs}
    /\ scaleHist' = <<>>
    /\ UNCHANGED <<rollback_on_error, sweepVars, day, expires_in, renewLog>>

NextDay ==
    /\ day < MaxDay
    /\ day' = day + 1
    /\ UNCHANGED <<fleetVars, sweepVars, expires_in, certs, jobs, renewLog>>

\* ------------------------------------------------------- specification
FleetEmpty ==
    /\ hosts = {}
    /\ nextHost = 1
    /\ lbs = [x \in {} |-> <<>>]
    /\ hcs = [x \in {} |-> {}]
    /\ pending = {}
    /\ scaleHist = <<>>
    /\ calls = <<>>
    /\ last = NoStep

CertsIdle ==
    /\ day = 0
    /\ expires_in = 90
    /\ certs = {}
    /\ jobs = <<>>
    /\ renewLog = NoRenewal

SweepsIdle ==
    /\ now = 0
    /\ seen = NoReport
    /\ pc = [w \in Workers |-> "idle"]
    /\ loc = [w \in Workers |-> Idle]
    /\ lock = NoLock
    /\ out = [w \in Workers |-> NoOutcome]

Init ==
    /\ FleetEmpty
    /\ rollback_on_error \in BOOLEAN
    /\ SweepsIdle
    /\ CertsIdle
    /\ rtasks = {}
    /\ known = {}

Next ==
    \/ \E key \in Instances : TM_ensure_ready(key)
    \/ \E key \in Instances : TM_create(key)
    \/ \E key \in Instances : TM_remove(key)
    \/ \E name \in Instances, fail \in AddFailures(World) :
          \E cf \in CleanupChoices(rollback_on_error, fail, FALSE) :
             NewInstanceTask_run(name, fail, cf)
    \/ \E name \in Instances :
          \E kf \in RemoveFailures(World, name) : RemoveInstanceTask_run(name, kf[1], kf[2])
    \/ \E name \in Instances, quantity \in 0..MaxQuantity :
          \E kf \in ScaleFailures(World, name, quantity) :
             \E cf \in CleanupChoices(rollback_on_error, kf[2], TRUE) :
                ScaleInstanceTask_run(name, quantity, kf[1], kf[2], cf)
    \/ \E name \in Instances, fail \in {"none", "ssl.generate_crt", "finally"} :
          DownloadCertTask_run(name, fail)
    \/ \E name \in Instances, fail \in {"none", "LoadBalancer.find", "plugin.revoke",
                                        "storage.remove_le_certificate", "finally"} :
          RevokeCertTask_run(name, fail)

Spec == Init /\ [][Next]_vars

\* The TaskManager alone, on a registry that holds any records.
InitTasks ==
    /\ hosts = {}
    /\ nextHost = 1
    /\ lbs = [x \in {} |-> <<>>]
    /\ hcs = [x \in {} |-> {}]
    /\ pending \in SUBSET TaskKeys
    /\ scaleHist = <<>>
    /\ calls = <<>>
    /\ last = NoStep
    /\ rollback_on_error = FALSE
    /\ SweepsIdle
    /\ CertsIdle
    /\ rtasks = {}
    /\ known = {}

NextTasks ==
    \/ \E key \in TaskKeys : TM_ensure_ready(key)
    \/ \E key \in TaskKeys : TM_create(key)
    \/ \E key \in TaskKeys : TM_remove(key)

SpecTasks == InitTasks /\ [][NextTasks]_vars

\* The renewal sweep on its schedule and the Download jobs it enqueues.
InitCert ==
    /\ FleetEmpty
    /\ rollback_on_error = FALSE
    /\ SweepsIdle
    /\ rtasks = {}
    /\ known = {}
    /\ day = 0
    /\ expires_in \in ExpirationDays
    /\ certs \in {{Cert("app1", d, 0) : d \in D} : D \in SUBSET {"d1", "d2"} \ {{}}}
    /\ jobs = <<>>
    /\ renewLog = NoRenewal

NextCert ==
    \/ NextDay
    \/ \E k \in 0..Len(DomainSeq) : RenewCertsTask_run(k)
    \/ \E i \in 1..MaxJobs, fail \in {"none", "ssl.generate_crt", "finally"} :
          DownloadCertJob(i, fail)

SpecCert == InitCert /\ [][NextCert]_vars

\* The health sweep on its schedule, the clock running.
InitSweep ==
    /\ FleetEmpty
    /\ rollback_on_error = FALSE
    /\ SweepsIdle
    /\ CertsIdle
    /\ rtasks \in {{RestoreTask(a, service_instance(a), 0) : a \in A} :
                       A \in SUBSET Addresses}
    /\ known \in SUBSET Addresses \ {{}}

NextSweep ==
    \/ Tick
    \/ \E report \in Reports : CheckMachineTask_run(report)

SpecSweep == InitSweep /\ [][NextSweep]_vars

\* Concurrent restore sweeps over tasks the health sweep has stored.
InitRestore ==
    /\ FleetEmpty
    /\ rollback_on_error = FALSE
    /\ SweepsIdle
    /\ CertsIdle
    /\ known = Addresses
    /\ rtasks \in {{RestoreTask(a, service_instance(a), 0) : a \in A} :
                       A \in SUBSET Addresses \ {{}}}

NextRestore ==
    \/ Tick
    \/ \E w \in Workers, find_fails \in BOOLEAN : RestoreMachineTask_run(w, find_fails)
    \/ \E w \in Workers, update_fails \in BOOLEAN : restore_machine_begin(w, update_fails)
    \/ \E w \in Workers, fail \in RestoreSteps \cup {"none"}, update_fails \in BOOLEAN :
          restore_machine_end(w, fail, update_fails)

SpecRestore == InitRestore /\ [][NextRestore]_vars

\* ------------------------------------------------------------ properties
HasCall(op, name, host) ==
    \E j \in 1..Len(calls) : calls[j] = Call(op, name, host)

\* Call a is in the log and call b follows it.
Followed(a, b) ==
    \E i \in 1..Len(calls) : \E j \in (i + 1)..Len(calls) : calls[i] = a /\ calls[j] = b

\* C10: ensure_ready(key) raises NotReadyError exactly when a PendingTask
\* record for key exists and creates no record; after create(key) it raises,
\* and after a remove(key) that went through it succeeds again.
C10_EnsureReadyGate ==
    /\ \A key \in Instances :
          /\ ensure_ready(pending, key).err = "NotReadyError" <=> key \in pending
          /\ ensure_ready(pending, key).tasks = pending
    /\ last.op = "ensure_ready" =>
          (last.err = "NotReadyError" <=> last.had) /\ (last.name \in pending <=> last.had)
    /\ last.op = "create" => ensure_ready(pending, last.name).err = "NotReadyError"
    /\ (last.op = "remove" /\ last.err = "ok") => ensure_ready(pending, last.name).err = "ok"

C10_Witness ==
    /\ last.op = "remove" /\ last.err = "ok" /\ last.had
    /\ ensure_ready(pending, last.name).err = "ok"

\* C2: when a ScaleInstanceTask, DownloadCertTask or RevokeCertTask run for
\* instance I has exited, with or without an error of the instance lookup, the
\* provisioner, the health check or the certificate adapter, I has no
\* PendingTask and ensure_ready(I) succeeds.
C2_PendingClearedOnExit ==
    (last.op \in {"scale", "download", "revoke"} /\ last.fail # "finally")
        => /\ last.name \notin pending
           /\ ensure_ready(pending, last.name).err = "ok"

C2_Witness ==
    /\ last.op = "scale" /\ last.had /\ last.err = "HealthCheckTimeout"
    /\ last.name \notin pending

\* C3: when _add_host raised after it created a host and rollback is enabled,
\* then at the handler's exit a destroy was issued, after the create, for
\* the host, for the load balancer the call created (if it created one) and
\* for the health-check service; each of them is gone unless its destroy
\* call itself raised.
C3_RollbackDestroysCreated ==
    (rollback_on_error /\ last.op \in {"new", "scale"} /\ last.host # 0)
        => LET n == last.name
               h == last.host
               createdLb == last.op = "new" /\ last.fail # "LoadBalancer.create"
           IN  /\ Followed(Call("Host.create", n, h), Call("host.destroy", "", h))
               /\ last.cf.host = "none" => h \notin hosts
               /\ createdLb =>
                     /\ Followed(Call("LoadBalancer.create", n, 0), Call("lb.destroy", n, 0))
                     /\ ~last.cf.lb => n \notin DOMAIN lbs
               /\ Followed(Call("Host.create", n, h), Call("hc.destroy", n, 0))
               /\ ~last.cf.hc => n \notin DOMAIN hcs

C3_Witness ==
    /\ rollback_on_error /\ last.op = "new" /\ last.host # 0
    /\ last.fail = "nginx.wait_healthcheck" /\ last.err = "HealthCheckTimeout"
    /\ last.cf = NoCleanupFailure
    /\ last.host \notin hosts /\ last.name \notin DOMAIN lbs /\ last.name \notin DOMAIN hcs

\* Every member of a load balancer exists and is registered in the
\* instance's health-check service.
MembersRegistered ==
    \A n \in DOMAIN lbs : \A j \in 1..Len(lbs[n]) :
        /\ lbs[n][j] \in hosts
        /\ n \in DOMAIN hcs /\ lbs[n][j] \in hcs[n]

\* C5 (as claimed): a handler that failed and rolled back (rollback enabled,
\* every cleanup call succeeding), in particular a failed scale-up against an
\* existing load balancer, keeps every member host of a load balancer
\* existing and registered in the instance's health-check service.
C5_MembersRegisteredAfterRollback ==
    [][(/\ MembersRegistered
        /\ \E n \in DOMAIN lbs : Len(lbs[n]) >= 1
        /\ rollback_on_error
        /\ last'.op \in {"new", "scale"} /\ last'.host # 0
        /\ last'.cf = NoCleanupFailure)
          => MembersRegistered']_vars

\* C9 (as claimed): two ScaleInstanceTask runs back to back, to |H| + N and
\* then to |H|, both without error, leave exactly the host set H and no
\* PendingTask.
Range(seq) == {seq[j] : j \in 1..Len(seq)}

\* The second of the two runs has just exited.
UpThenDown ==
    /\ last.op = "scale"
    /\ Len(scaleHist) = 2
    /\ scaleHist[1].quantity > Len(scaleHist[1].before)
    /\ scaleHist[2].quantity = Len(scaleHist[1].before)
    /\ scaleHist[2].before = scaleHist[1].after

C9_SameMembersAfterUpDown ==
    UpThenDown => /\ Range(scaleHist[2].after) = Range(scaleHist[1].before)
                  /\ scaleHist[2].name \notin pending

\* C9 (amended): such a pair of runs leaves the instance with as many hosts
\* as it had, |H|, and no PendingTask.
C9_SameCountAfterUpDown ==
    UpThenDown => /\ Len(scaleHist[2].after) = Len(scaleHist[1].before)
                  /\ Cardinality(Range(scaleHist[2].after)) = Len(scaleHist[1].before)
                  /\ scaleHist[2].name \notin pending

C9_Witness ==
    /\ UpThenDown /\ Len(scaleHist[1].before) >= 1
    /\ Len(scaleHist[2].after) = Len(scaleHist[1].before)
    /\ last.op = "scale" /\ last.had

\* C6: a health sweep that sees a known address failing with no RestoreTask
\* stores exactly one, created now; with a RestoreTask stored it stores no
\* second one and leaves the stored one as it is; a sweep that sees the
\* address passing leaves no RestoreTask for it, whether there was one or
\* not; addresses not reported or not known are left alone; there is never
\* more than one RestoreTask of an address.
TasksOf(ts, a) == {t \in ts : t.id = task_name(a)}

C6_HealthSweepOneTaskPerAddress ==
    [][now' = now =>
         \A a \in Addresses :
            LET old == TasksOf(rtasks, a)
                new == TasksOf(rtasks', a)
                saw == seen'.nodes[a]
            IN  /\ Cardinality(new) <= 1
                /\ (a \in known /\ saw = "failing" /\ old = {})
                      => new = {RestoreTask(a, service_instance(a), now)}
                /\ (a \in known /\ saw = "failing" /\ old # {}) => new = old
                /\ (a \in known /\ saw = "passing") => new = {}
                /\ (a \notin known \/ saw = "absent") => new = old]_vars

\* A sweep later than the one that stored the task saw the address failing
\* again, and the task is the one stored first.
C6_Witness ==
    \E a \in known :
       /\ seen.nodes[a] = "failing"
       /\ \E t \in rtasks : t.id = task_name(a) /\ t.created < seen.at

\* C1: no RestoreTask is being restored by two workers at once (each worker
\* between its call of Host.restore() and the removal of the task).
C1_RestoredByOneWorker ==
    \A w1, w2 \in Workers :
       (w1 # w2 /\ pc[w1] = "restore" /\ pc[w2] = "restore")
          => loc[w1].task.id # loc[w2].task.id

\* C4: the error a restore sweep raises from its failure path is the error
\* that sent it there, whatever stamping last_attempt and releasing the lock do.
C4_RestoreRaisesOriginalError ==
    \A w \in Workers : out[w].status = "failed" => out[w].raised = out[w].orig

\* C7: when the processing of a RestoreTask fails (the stamping itself not
\* failing), the sweep exits with that task stored and its last_attempt set
\* to the time of the failure.
C7_FailedTaskStaysStamped ==
    [][\A w \in Workers :
          (/\ out'[w] # out[w]
           /\ out'[w].status = "failed"
           /\ out'[w].task # NoId
           /\ out'[w].raised # "storage.update_task")
             => \E t \in rtasks' : t.id = out'[w].task /\ t.last_attempt = <<now>>]_vars

\* C8: a worker whose restore sweep has exited does not own the lock.
C8_LockReleasedOnExit ==
    \A w \in Workers : pc[w] = "idle" => lock.owner # w

\* C11: TaskManager.remove(key) with no record for key raises
\* TaskNotFoundError and leaves the registry as it was; with a record for key
\* it returns normally and the registry has lost that record and no other.
C11_RemoveAbsentRaises ==
    [][last'.op = "remove" =>
          IF last'.name \in pending
          THEN last'.err = "ok" /\ pending' = pending \ {last'.name}
          ELSE last'.err = "TaskNotFoundError" /\ pending' = pending]_vars

C11_Witness ==
    /\ last.op = "remove" /\ ~last.had /\ last.err = "TaskNotFoundError"
    /\ last.name \notin pending /\ pending # {}

\* C12: a ScaleInstanceTask run whose quantity is the number of hosts the
\* instance's load balancer has makes no call but the lookup of the load
\* balancer and the removal of the task: hosts, load balancers and
\* health-check services stay as they were, the run raises nothing and the
\* instance has no PendingTask afterwards.
C12_ScaleToSameCountOnlyClears ==
    [][(/\ last'.op = "scale" /\ last'.fail = "none"
        /\ last'.name \in DOMAIN lbs
        /\ last'.arg = Len(lbs[last'.name]))
          => /\ calls' = <<Call("LoadBalancer.find", last'.name, 0),
                           Call("storage.remove_task", last'.name, 0)>>
             /\ hosts' = hosts /\ nextHost' = nextHost /\ lbs' = lbs /\ hcs' = hcs
             /\ last'.err = "ok"
             /\ pending' = pending \ {last'.name}]_vars

C12_Witness ==
    /\ last.op = "scale" /\ last.fail = "none" /\ last.err = "ok" /\ last.had
    /\ scaleHist # <<>>
    /\ last.arg = Len(scaleHist[Len(scaleHist)].before)
    /\ last.arg >= 1
    /\ scaleHist[Len(scaleHist)].after = scaleHist[Len(scaleHist)].before
    /\ last.name \notin pending

\* C13: a renewal sweep that raised nothing has enqueued one Download job for
\* each Certificate Record with created <= now - (expiration_days - 3) days
\* and none for any other record, whatever expiration_days is configured; with
\* expiration_days = 90 a record created on the day of the sweep gets no job.
C13_RenewsExactlyDueCertificates ==
    renewLog.err = "ok" =>
       /\ \A c \in renewLog.certs :
             (\E j \in 1..Len(renewLog.enqueued) : renewLog.enqueued[j] = Job(c))
                <=> c.created <= renewLog.at - (expires_in - 3)
       /\ \A j \in 1..Len(renewLog.enqueued) :
             /\ \E c \in renewLog.certs : renewLog.enqueued[j] = Job(c)
             /\ \A j2 \in 1..Len(renewLog.enqueued) :
                   renewLog.enqueued[j2] = renewLog.enqueued[j] => j2 = j
       /\ expires_in = 90 =>
             \A c \in renewLog.certs :
                c.created = renewLog.at
                   => \A j \in 1..Len(renewLog.enqueued) : renewLog.enqueued[j] # Job(c)

\* A sweep found one record due and another, renewed since, not due.
C13_Witness ==
    /\ renewLog.err = "ok" /\ Len(renewLog.enqueued) = 1
    /\ \E c \in renewLog.certs :
          c.created > renewLog.at - (expires_in - 3) /\ c.created > 0

\* C18: the queue never holds two Download jobs for the same Certificate
\* Record.
C18_OneDownloadPerCertificate ==
    \A i, j \in 1..Len(jobs) : jobs[i] = jobs[j] => i = j

\* The calls of the log between the i-th and the j-th.
Between(i, j, c) == \E x \in (i + 1)..(j - 1) : calls[x] = c

\* C14: when a NewInstanceTask or ScaleInstanceTask run has exited without
\* error, every host an _add_host call of it created exists, is a member of
\* the instance's load balancer and is registered in the instance's
\* health-check service, and the instance has no PendingTask; the removal of
\* the PendingTask that follows the creation of a host comes after the health
\* check of that host and after its registration.
C14_AddHostCompletes ==
    (last.op \in {"new", "scale"} /\ last.err = "ok") =>
       \A i \in 1..Len(calls) :
          calls[i].op = "Host.create" =>
             LET n == last.name
                 h == calls[i].host
             IN  /\ h \in hosts
                 /\ n \in DOMAIN lbs /\ \E x \in 1..Len(lbs[n]) : lbs[n][x] = h
                 /\ n \in DOMAIN hcs /\ h \in hcs[n]
                 /\ n \notin pending
                 /\ \E j \in (i + 1)..Len(calls) :
                       /\ calls[j] = Call("storage.remove_task", n, 0)
                       /\ \A x \in (i + 1)..(j - 1) : calls[x].op # "storage.remove_task"
                       /\ Between(i, j, Call("nginx.wait_healthcheck", "", h))
                       /\ Between(i, j, Call("hc.add_url", n, h))

C14_Witness ==
    /\ last.op = "new" /\ last.err = "ok" /\ last.had
    /\ HasCall("Host.create", last.name, 1)
    /\ 1 \in hosts /\ lbs[last.name] = <<1>> /\ hcs[last.name] = {1}
    /\ last.name \notin pending

\* C15: a ScaleInstanceTask run for an instance that has a PendingTask
\* removes it only as it exits: once storage.remove_task has been called for
\* the instance the run creates no further host.
C15_TaskKeptUntilScaleExits ==
    (last.op = "scale" /\ last.had) =>
       \A i \in 1..Len(calls) :
          calls[i] = Call("storage.remove_task", last.name, 0) =>
             \A j \in (i + 1)..Len(calls) : calls[j].op # "Host.create"

\* C16: a worker that is in its sweep (listing done, lock not yet released)
\* owns the lock: the key has not expired and no other worker has taken it.
C16_LockHeldDuringSweep ==
    \A w \in Workers : pc[w] \in {"loop", "restore"} => lock.owner = w

\* C17: a ScaleInstanceTask run to a quantity q below the number n of hosts
\* of the instance, no call being made to raise, raises nothing, destroys the
\* first n - q hosts of the load balancer's list and leaves the other q
\* as its members.
C17_ScaleDownRemovesFront ==
    [][(/\ last'.op = "scale" /\ last'.fail = "none"
        /\ last'.name \in DOMAIN lbs
        /\ last'.arg < Len(lbs[last'.name]))
          => LET n == Len(lbs[last'.name])
                 q == last'.arg
                 old == lbs[last'.name]
             IN  /\ last'.err = "ok"
                 /\ lbs'[last'.name] = SubSeq(old, n - q + 1, n)
                 /\ hosts' = hosts \ {old[x] : x \in 1..(n - q)}]_vars

\* C19: a RemoveInstanceTask run for a name that has no load balancer raises
\* InstanceNotFoundError having made no call but the lookup and changed
\* nothing; a run for an instance that raises nothing has destroyed every
\* host that was a member of the load balancer and detached it, and has
\* destroyed the load balancer and the instance's health-check service.
C19_RemoveInstanceRemovesAll ==
    [][last'.op = "remove_instance" =>
          LET n == last'.name
          IN  IF n \notin DOMAIN lbs
              THEN last'.fail # "LoadBalancer.find" =>
                      /\ last'.err = "InstanceNotFoundError"
                      /\ calls' = <<Call("LoadBalancer.find", n, 0)>>
                      /\ hosts' = hosts /\ lbs' = lbs /\ hcs' = hcs
              ELSE last'.err = "ok" =>
                      /\ \A x \in 1..Len(lbs[n]) :
                            /\ lbs[n][x] \notin hosts'
                            /\ \E j \in 1..Len(calls') :
                                  calls'[j] = Call("host.destroy", "", lbs[n][x])
                            /\ \E j \in 1..Len(calls') :
                                  calls'[j] = Call("lb.remove_host", n, lbs[n][x])
                      /\ n \notin DOMAIN lbs'
                      /\ n \notin DOMAIN hcs']_vars

C19_Witness ==
    /\ last.op = "remove_instance" /\ last.err = "ok"
    /\ HasCall("host.destroy", "", 1) /\ HasCall("host.destroy", "", 2)
    /\ HasCall("lb.destroy", last.name, 0)
    /\ hosts = {} /\ last.name \notin DOMAIN lbs /\ last.name \notin DOMAIN hcs

\* C20: a health sweep leaves the RestoreTasks of an address that is not a
\* known host as they are, whether the node is passing or failing, and
\* processes the known nodes of the same report, those listed after the
\* unknown one included: a failing one has a RestoreTask afterwards, a
\* passing one has none.
C20_UnknownNodeSkipped ==
    [][now' = now =>
         /\ \A a \in Addresses \ known : TasksOf(rtasks', a) = TasksOf(rtasks, a)
         /\ (\E a \in Addresses \ known : seen'.nodes[a] # "absent") =>
               \A b \in known :
                  /\ seen'.nodes[b] = "failing" => TasksOf(rtasks', b) # {}
                  /\ seen'.nodes[b] = "passing" => TasksOf(rtasks', b) = {}]_vars

\* The unknown node came first in the report; the known one after it got
\* its task in that sweep, the unknown one's stored task is still there.
C20_Witness ==
    /\ known = {"h2"}
    /\ seen.nodes["h1"] = "passing" /\ seen.nodes["h2"] = "failing"
    /\ seen.at > 0
    /\ RestoreTask("h2", service_instance("h2"), seen.at) \in rtasks
    /\ TasksOf(rtasks, "h1") # {}

====
